---- MODULE Spec2Model ----
(***************************************************************************)
(* Model of mythologizer/registry/registry.py: the Registry container, its *)
(* key schema (KeyConfig), the uniqueness check, key-to-index resolution,  *)
(* the mutation API and the pluralized projection accessor.                *)
(*                                                                         *)
(* Python values are tagged: [type |-> "str" | "int" | "UUID", val |-> n]. *)
(* Two values are equal (Python ==) iff tag and payload are equal; no two  *)
(* of the three types are subclasses of one another, so isinstance is tag  *)
(* equality.  Words (attribute names, property names) are sequences of     *)
(* one-character strings.  Python list indices are 0-based: records[i] of  *)
(* the code is records[i + 1] here.                                        *)
(***************************************************************************)
EXTENDS Integers, Sequences, FiniteSets, TLC

VARIABLES
    pc,           \* the caller: "new" before Registry(...), "failed" when it raised,
                  \* "idle" between calls, "returned" when a call has just ended
    rec_type,     \* the element type T of the records (its class name)
    key_configs,  \* the key_configs= argument; Registry.key_configs once built
    records,      \* Registry.records
    seeded,       \* the constructor was given a non-empty records= argument
    op,           \* the last call made on the Registry
    keys,         \* its key argument, as passed
    vals,         \* its value argument, as passed
    pre,          \* Registry.records before the call
    err,          \* the exception the call raised, or "none"
    ret           \* the value the call returned

vars == <<pc, rec_type, key_configs, records, seeded, op, keys, vals, pre, err, ret>>

(***************************************************************************)
(* Bounds of the model.                                                    *)
(***************************************************************************)
MaxRecords == 2   \* an append is taken while the store it leaves holds at most this many records
MaxBatch == 2     \* longest list passed as a key or value argument
MaxWordLen == 3   \* longest word drawn for pluralize, its named examples apart

(***************************************************************************)
(* Values, words and sequences.                                            *)
(***************************************************************************)
StrV(n) == [type |-> "str", val |-> n]
IntV(n) == [type |-> "int", val |-> n]
UuidV(n) == [type |-> "UUID", val |-> n]

StrValues == {StrV(1), StrV(2)}
IntValues == {IntV(0), IntV(1)}
UuidValues == {UuidV(1), UuidV(2)}

isinstance(value, expected_type) == value.type = expected_type

SeqsUpTo(S, n) == UNION {[1..k -> S] : k \in 0..n}

Range(s) == {s[i] : i \in DOMAIN s}

\* list.pop(i) for 0 <= i < len: the list without its element at index i
Pop(s, i) == [j \in 1..(Len(s) - 1) |-> IF j <= i THEN s[j] ELSE s[j + 1]]

\* the list with s[i] = v assigned (0-based i)
SetAt(s, i, v) == [s EXCEPT ![i + 1] = v]

\* ensure_list: arguments are passed as [list |-> BOOLEAN, items |-> Seq];
\* a bare item is [list |-> FALSE, items |-> <<item>>]
One(x) == [list |-> FALSE, items |-> <<x>>]
List(s) == [list |-> TRUE, items |-> s]
ensure_list(item_or_list) == item_or_list.items

(***************************************************************************)
(* pluralize                                                               *)
(***************************************************************************)
LowerCase == <<"a","b","c","d","e","f","g","h","i","j","k","l","m",
               "n","o","p","q","r","s","t","u","v","w","x","y","z">>
UpperCase == <<"A","B","C","D","E","F","G","H","I","J","K","L","M",
               "N","O","P","Q","R","S","T","U","V","W","X","Y","Z">>
Digits == {"0","1","2","3","4","5","6","7","8","9"}

\* str.lower() of one character
Lower(c) ==
    IF \E i \in 1..26 : UpperCase[i] = c
    THEN LowerCase[CHOOSE i \in 1..26 : UpperCase[i] = c]
    ELSE c

\* str.endswith(suffix)
EndsWith(word, suffix) ==
    /\ Len(suffix) <= Len(word)
    /\ SubSeq(word, Len(word) - Len(suffix) + 1, Len(word)) = suffix

\* word[:-1]
DropLast(word) == SubSeq(word, 1, Len(word) - 1)

Vowels == {"a", "e", "i", "o", "u"}

\* the mutant: the consonant + y rule left out
pluralizeNoYRule(word) ==
    IF EndsWith(word, <<"s">>) THEN word
    ELSE IF \/ EndsWith(word, <<"s", "h">>) \/ EndsWith(word, <<"c", "h">>)
            \/ EndsWith(word, <<"x">>) \/ EndsWith(word, <<"z">>)
    THEN word \o <<"e", "s">>
    ELSE word \o <<"s">>

pluralize(word) ==
    IF EndsWith(word, <<"s">>) THEN word
    ELSE IF /\ EndsWith(word, <<"y">>)
            /\ Len(word) > 1
            /\ Lower(word[Len(word) - 1]) \notin Vowels
    THEN DropLast(word) \o <<"i", "e", "s">>
    ELSE IF \/ EndsWith(word, <<"s", "h">>) \/ EndsWith(word, <<"c", "h">>)
            \/ EndsWith(word, <<"x">>) \/ EndsWith(word, <<"z">>)
    THEN word \o <<"e", "s">>
    ELSE word \o <<"s">>

(***************************************************************************)
(* The element types the Registry is used with.  The record class is       *)
(* opaque to the Registry: it only reads the class (type(records[0])),     *)
(* whether the class has __fields__ or __annotations__, the names they     *)
(* list, dir() of the class, and the attributes of a record by name.       *)
(*   Person, Account, Node, Entry, Tagged: pydantic models                 *)
(*   Tag:   a plain class with the class annotation  name: str             *)
(*   Loose: a plain class that sets self.name in __init__, no annotation   *)
(***************************************************************************)
W_name == <<"n", "a", "m", "e">>
W_id == <<"i", "d">>
W_alias == <<"a", "l", "i", "a", "s">>
W_box == <<"b", "o", "x">>
W_proxy == <<"p", "r", "o", "x", "y">>
W_record == <<"r", "e", "c", "o", "r", "d">>
W_names == <<"n", "a", "m", "e", "s">>
W_ids == <<"i", "d", "s">>
W_boxes == <<"b", "o", "x", "e", "s">>
W_proxies == <<"p", "r", "o", "x", "i", "e", "s">>
W_labels == <<"l", "a", "b", "e", "l", "s">>
W_records == <<"r", "e", "c", "o", "r", "d", "s">>
W_key_configs == <<"k", "e", "y", "_", "c", "o", "n", "f", "i", "g", "s">>
W_2nd == <<"2", "n", "d">>
W_append == <<"a", "p", "p", "e", "n", "d">>
W_clear == <<"c", "l", "e", "a", "r">>
W_resolve_index_by_key == <<"r", "e", "s", "o", "l", "v", "e", "_", "i", "n", "d", "e", "x", "_", "b", "y", "_", "k", "e", "y">>
W__check_uniqueness == <<"_", "c", "h", "e", "c", "k", "_", "u", "n", "i", "q", "u", "e", "n", "e", "s", "s">>
W__resolve_index == <<"_", "r", "e", "s", "o", "l", "v", "e", "_", "i", "n", "d", "e", "x">>
W__resolve_indices == <<"_", "r", "e", "s", "o", "l", "v", "e", "_", "i", "n", "d", "i", "c", "e", "s">>
W__validate_key_configs == <<"_", "v", "a", "l", "i", "d", "a", "t", "e", "_", "k", "e", "y", "_", "c", "o", "n", "f", "i", "g", "s">>
W___init__ == <<"_", "_", "i", "n", "i", "t", "_", "_">>

RecTypes == {"Person", "Account", "Node", "Entry", "Tagged", "Tag", "Loose"}

\* hasattr(record_type, '__fields__')
hasattr_fields(t) == t \in {"Person", "Account", "Node", "Entry", "Tagged"}

\* list(record_type.__fields__.keys()), in declaration order
Fields(t) ==
    CASE t = "Person" -> <<W_name, W_id>>
      [] t = "Account" -> <<W_alias, W_box>>
      [] t = "Node" -> <<W_id, W_proxy>>
      [] t = "Entry" -> <<W_record>>
      [] t = "Tagged" -> <<W_name, W_names>>

\* hasattr(record_type, '__annotations__'): every class has the attribute,
\* a class without annotations of its own has the empty dict
hasattr_annotations(t) == t \in RecTypes

\* list(record_type.__annotations__.keys())
Annotations(t) ==
    CASE t = "Tag" -> <<W_name>>
      [] t = "Loose" -> <<>>
      [] OTHER -> Fields(t)

\* dir(record_type), the names the plain classes define, in dir() order,
\* each with callable(getattr(record_type, attr))
Dir(t) ==
    CASE t = "Tag" -> <<[name |-> W___init__, callable |-> TRUE]>>
      [] t = "Loose" -> <<[name |-> W___init__, callable |-> TRUE]>>
      [] OTHER -> <<>>

\* the attributes a record of the element type has
Attributes(t) == IF hasattr_fields(t) THEN Fields(t) ELSE <<W_name>>

\* the values an attribute of the element type takes
FieldValues(attr) ==
    CASE attr = W_name -> StrValues
      [] attr = W_alias -> StrValues
      [] attr = W_record -> StrValues
      [] attr = W_box -> IntValues
      [] attr = W_names -> IntValues
      [] attr = W_id -> UuidValues
      [] attr = W_proxy -> UuidValues

\* the instances of element type t; getattr(rec, attr) is rec[attr]
Instances(t) ==
    {r \in [Range(Attributes(t)) -> StrValues \cup IntValues \cup UuidValues] :
        \A a \in Range(Attributes(t)) : r[a] \in FieldValues(a)}

getattr(rec, attr) == rec[attr]

(***************************************************************************)
(* KeyConfig and the schema validation                                     *)
(***************************************************************************)
KeyConfig(p, a, t) == [prop_name |-> p, attr_name |-> a, expected_type |-> t]

Letters == Range(LowerCase) \cup Range(UpperCase)

\* str.isidentifier() on ASCII words
isidentifier(v) ==
    /\ Len(v) > 0
    /\ v[1] \in Letters \cup {"_"}
    /\ \A i \in 2..Len(v) : v[i] \in Letters \cup Digits \cup {"_"}

\* str.isdigit()
isdigit(v) == Len(v) > 0 /\ \A i \in 1..Len(v) : v[i] \in Digits

\* KeyConfig.validate_prop_name: TRUE iff the validator raises
validate_prop_name_raises(v) == ~isidentifier(v) \/ isdigit(v)

\* the mutant: the UUID exemption dropped
RECURSIVE ValidateFromNoExemption(_, _, _)
ValidateFromNoExemption(configs, i, seen) ==
    IF i > Len(configs) THEN FALSE
    ELSE IF configs[i].expected_type \in seen THEN TRUE
    ELSE ValidateFromNoExemption(configs, i + 1, seen \cup {configs[i].expected_type})

\* Registry._validate_key_configs from configs[i] on with the dict `seen`
\* (its keys are all that is read): TRUE iff the validator raises
RECURSIVE ValidateFrom(_, _, _)
ValidateFrom(configs, i, seen) ==
    IF i > Len(configs) THEN FALSE
    ELSE IF configs[i].expected_type # "UUID"
    THEN IF configs[i].expected_type \in seen THEN TRUE
         ELSE ValidateFrom(configs, i + 1, seen \cup {configs[i].expected_type})
    ELSE ValidateFrom(configs, i + 1, seen)

_validate_key_configs_raises(configs) == ValidateFrom(configs, 1, {})

\* the schemas the Registry is constructed with, per element type
Schemas(t) ==
    CASE t = "Person" ->
            { <<KeyConfig(W_names, W_name, "str"), KeyConfig(W_ids, W_id, "UUID")>>,
              <<KeyConfig(W_ids, W_id, "UUID"), KeyConfig(W_labels, W_id, "UUID"),
                KeyConfig(W_proxies, W_id, "UUID"), KeyConfig(W_names, W_name, "str")>>,
              <<KeyConfig(W_names, W_name, "str"), KeyConfig(W_labels, W_name, "str")>>,
              <<KeyConfig(W_names, W_name, "str"), KeyConfig(W_ids, W_id, "UUID"),
                KeyConfig(W_labels, W_name, "str")>>,
              <<KeyConfig(W_2nd, W_name, "str")>> }
      [] t = "Account" ->
            { <<KeyConfig(W_alias, W_alias, "str"), KeyConfig(W_boxes, W_box, "int")>>,
              <<KeyConfig(W_boxes, W_box, "int"), KeyConfig(W_ids, W_box, "int")>> }
      [] t = "Node" ->
            { <<KeyConfig(W_ids, W_id, "UUID"), KeyConfig(W_proxies, W_proxy, "UUID")>> }
      [] t = "Entry" ->
            { <<KeyConfig(W_records, W_record, "str")>> }
      [] t \in {"Tagged", "Tag", "Loose"} ->
            { <<KeyConfig(W_names, W_name, "str")>> }

(***************************************************************************)
(* The exceptions the code raises.                                         *)
(***************************************************************************)
NoError == "none"
SchemaError == "ValidationError"                       \* raised by a validator
DuplicateKeyError == "ValueError: Duplicate value for key"
AmbiguousKeyError == "ValueError: Ambiguous key value"
CountMismatchError == "ValueError: Number of keys and values must match."
IndexOutOfRange == "IndexError: Index out of range."
KeyNotFound == "KeyError: Key not found."
PopIndexError == "IndexError: pop index out of range"
AttributeNotFound == "AttributeError"

(***************************************************************************)
(* Registry._check_uniqueness: TRUE iff it raises.  exclude_index is -1    *)
(* for None.  recs is self.records, cfgs is self.key_configs.              *)
(***************************************************************************)
\* the mutant: only the first key declaration is checked
_check_uniqueness_first_key_only(cfgs, recs, record, exclude_index) ==
    \E c \in 1..Len(cfgs) :
        /\ c = 1
        /\ cfgs[c].expected_type # "UUID"
        /\ \E i \in 0..(Len(recs) - 1) :
              /\ ~(exclude_index # -1 /\ i = exclude_index)
              /\ getattr(recs[i + 1], cfgs[c].attr_name) = getattr(record, cfgs[c].attr_name)

_check_uniqueness(cfgs, recs, record, exclude_index) ==
    \E c \in 1..Len(cfgs) :
        /\ cfgs[c].expected_type # "UUID"
        /\ \E i \in 0..(Len(recs) - 1) :
              /\ ~(exclude_index # -1 /\ i = exclude_index)
              /\ getattr(recs[i + 1], cfgs[c].attr_name) = getattr(record, cfgs[c].attr_name)

(***************************************************************************)
(* Registry.append: the loop over ensure_list(record) from item n on.      *)
(* The result is the store it leaves and the exception it raised.          *)
(***************************************************************************)
\* the mutant: a colliding record is skipped and the loop goes on, the
\* error is raised at the end
RECURSIVE append_loop_continues(_, _, _, _)
append_loop_continues(cfgs, recs, batch, n) ==
    IF n > Len(batch) THEN [records |-> recs, err |-> NoError]
    ELSE IF _check_uniqueness(cfgs, recs, batch[n], -1)
    THEN [records |-> append_loop_continues(cfgs, recs, batch, n + 1).records,
          err |-> DuplicateKeyError]
    ELSE append_loop_continues(cfgs, Append(recs, batch[n]), batch, n + 1)

\* the mutant: each record is inserted at the front
RECURSIVE append_loop_prepend(_, _, _, _)
append_loop_prepend(cfgs, recs, batch, n) ==
    IF n > Len(batch) THEN [records |-> recs, err |-> NoError]
    ELSE IF _check_uniqueness(cfgs, recs, batch[n], -1)
    THEN [records |-> recs, err |-> DuplicateKeyError]
    ELSE append_loop_prepend(cfgs, <<batch[n]>> \o recs, batch, n + 1)

RECURSIVE append_loop(_, _, _, _)
append_loop(cfgs, recs, batch, n) ==
    IF n > Len(batch) THEN [records |-> recs, err |-> NoError]
    ELSE IF _check_uniqueness(cfgs, recs, batch[n], -1)
    THEN [records |-> recs, err |-> DuplicateKeyError]
    ELSE append_loop(cfgs, Append(recs, batch[n]), batch, n + 1)

(***************************************************************************)
(* Registry.resolve_index_by_key from key_configs[c] on: the index, or -1  *)
(* for None, with the exception raised.                                    *)
(***************************************************************************)
MatchingIndices(recs, attr_name, key_value) ==
    {i \in 0..(Len(recs) - 1) : getattr(recs[i + 1], attr_name) = key_value}

\* the mutant: several matches resolve to the first of them
RECURSIVE resolve_index_by_key_first_hit(_, _, _, _)
resolve_index_by_key_first_hit(cfgs, recs, key_value, c) ==
    IF c > Len(cfgs) THEN [idx |-> -1, err |-> NoError]
    ELSE IF isinstance(key_value, cfgs[c].expected_type)
    THEN LET indices == MatchingIndices(recs, cfgs[c].attr_name, key_value)
         IN  IF indices = {} THEN [idx |-> -1, err |-> NoError]
             ELSE [idx |-> CHOOSE i \in indices : \A j \in indices : i <= j, err |-> NoError]
    ELSE resolve_index_by_key_first_hit(cfgs, recs, key_value, c + 1)

\* the mutant: a declaration without a match falls through to the next one
RECURSIVE resolve_index_by_key_fallthrough(_, _, _, _)
resolve_index_by_key_fallthrough(cfgs, recs, key_value, c) ==
    IF c > Len(cfgs) THEN [idx |-> -1, err |-> NoError]
    ELSE IF /\ isinstance(key_value, cfgs[c].expected_type)
            /\ MatchingIndices(recs, cfgs[c].attr_name, key_value) # {}
    THEN LET indices == MatchingIndices(recs, cfgs[c].attr_name, key_value)
         IN  IF Cardinality(indices) > 1 THEN [idx |-> -1, err |-> AmbiguousKeyError]
             ELSE [idx |-> CHOOSE i \in indices : TRUE, err |-> NoError]
    ELSE resolve_index_by_key_fallthrough(cfgs, recs, key_value, c + 1)

RECURSIVE resolve_index_by_key_from(_, _, _, _)
resolve_index_by_key_from(cfgs, recs, key_value, c) ==
    IF c > Len(cfgs) THEN [idx |-> -1, err |-> NoError]
    ELSE IF isinstance(key_value, cfgs[c].expected_type)
    THEN LET indices == MatchingIndices(recs, cfgs[c].attr_name, key_value)
         IN  IF indices = {} THEN [idx |-> -1, err |-> NoError]
             ELSE IF Cardinality(indices) > 1 THEN [idx |-> -1, err |-> AmbiguousKeyError]
             ELSE [idx |-> CHOOSE i \in indices : TRUE, err |-> NoError]
    ELSE resolve_index_by_key_from(cfgs, recs, key_value, c + 1)

resolve_index_by_key(cfgs, recs, key_value) ==
    resolve_index_by_key_from(cfgs, recs, key_value, 1)

\* the mutant: an int key is first looked up as a key value
_resolve_index_by_value(cfgs, recs, key) ==
    LET r == resolve_index_by_key(cfgs, recs, key)
    IN  IF r.err # NoError THEN r
        ELSE IF r.idx # -1 THEN r
        ELSE IF isinstance(key, "int")
        THEN IF key.val < 0 \/ key.val >= Len(recs)
             THEN [idx |-> -1, err |-> IndexOutOfRange]
             ELSE [idx |-> key.val, err |-> NoError]
        ELSE [idx |-> -1, err |-> KeyNotFound]

\* the mutant: a negative position counts from the end, as in list indexing
_resolve_index_wraps(cfgs, recs, key) ==
    IF isinstance(key, "int")
    THEN IF key.val < -Len(recs) \/ key.val >= Len(recs)
         THEN [idx |-> -1, err |-> IndexOutOfRange]
         ELSE [idx |-> IF key.val < 0 THEN key.val + Len(recs) ELSE key.val, err |-> NoError]
    ELSE LET r == resolve_index_by_key(cfgs, recs, key)
         IN  IF r.err # NoError THEN r
             ELSE IF r.idx = -1 THEN [idx |-> -1, err |-> KeyNotFound]
             ELSE r

\* Registry._resolve_index
_resolve_index(cfgs, recs, key) ==
    IF isinstance(key, "int")
    THEN IF key.val < 0 \/ key.val >= Len(recs)
         THEN [idx |-> -1, err |-> IndexOutOfRange]
         ELSE [idx |-> key.val, err |-> NoError]
    ELSE LET r == resolve_index_by_key(cfgs, recs, key)
         IN  IF r.err # NoError THEN r
             ELSE IF r.idx = -1 THEN [idx |-> -1, err |-> KeyNotFound]
             ELSE r

\* Registry._resolve_indices: the list comprehension from key n on; the
\* first key that fails to resolve ends it with that key's exception.  A set
\* argument is the list of its elements in the order list(keys) yields: one
\* of the lists without repetition in KeyArgs.
RECURSIVE resolve_from(_, _, _, _)
resolve_from(cfgs, recs, ks, n) ==
    IF n > Len(ks) THEN [indices |-> <<>>, err |-> NoError]
    ELSE LET r == _resolve_index(cfgs, recs, ks[n])
         IN  IF r.err # NoError THEN [indices |-> <<>>, err |-> r.err]
             ELSE LET rest == resolve_from(cfgs, recs, ks, n + 1)
                  IN  IF rest.err # NoError THEN rest
                      ELSE [indices |-> <<r.idx>> \o rest.indices, err |-> NoError]

_resolve_indices(cfgs, recs, key_arg) == resolve_from(cfgs, recs, ensure_list(key_arg), 1)

\* the mutant: the records come back in the reverse of the key order
getitem_result_reversed(recs, indices) ==
    IF Len(indices) = 1
    THEN [kind |-> "item", items |-> <<recs[indices[1] + 1]>>]
    ELSE [kind |-> "list",
          items |-> [j \in 1..Len(indices) |-> recs[indices[Len(indices) - j + 1] + 1]]]

\* Registry.__getitem__: the value returned for resolved indices
getitem_result(recs, indices) ==
    IF Len(indices) = 1
    THEN [kind |-> "item", items |-> <<recs[indices[1] + 1]>>]
    ELSE [kind |-> "list", items |-> [j \in 1..Len(indices) |-> recs[indices[j] + 1]]]

\* the mutant: every pair is validated against the store as it was, then
\* all are written
setitem_loop_validate_first(cfgs, recs, indices, values, n) ==
    IF \E m \in n..Len(indices) : _check_uniqueness(cfgs, recs, values[m], indices[m])
    THEN [records |-> recs, err |-> DuplicateKeyError]
    ELSE [records |-> [k \in 1..Len(recs) |->
                        LET ms == {m \in n..Len(indices) : indices[m] = k - 1}
                        IN  IF ms = {} THEN recs[k]
                            ELSE values[CHOOSE m \in ms : \A l \in ms : l <= m]],
          err |-> NoError]

\* Registry.__setitem__: the loop over zip(indices, values) from pair n on
RECURSIVE setitem_loop(_, _, _, _, _)
setitem_loop(cfgs, recs, indices, values, n) ==
    IF n > Len(indices) \/ n > Len(values) THEN [records |-> recs, err |-> NoError]
    ELSE IF _check_uniqueness(cfgs, recs, values[n], indices[n])
    THEN [records |-> recs, err |-> DuplicateKeyError]
    ELSE setitem_loop(cfgs, SetAt(recs, indices[n], values[n]), indices, values, n + 1)

\* the mutant: no count check, zip() stops at the shorter list
setitem_no_count_check(cfgs, recs, key_arg, value_arg) ==
    LET r == _resolve_indices(cfgs, recs, key_arg)
        values == ensure_list(value_arg)
    IN  IF r.err # NoError THEN [records |-> recs, err |-> r.err]
        ELSE setitem_loop(cfgs, recs, r.indices, values, 1)

\* Registry.__setitem__
setitem(cfgs, recs, key_arg, value_arg) ==
    LET r == _resolve_indices(cfgs, recs, key_arg)
        values == ensure_list(value_arg)
    IN  IF r.err # NoError THEN [records |-> recs, err |-> r.err]
        ELSE IF Len(r.indices) # Len(values)
        THEN [records |-> recs, err |-> CountMismatchError]
        ELSE setitem_loop(cfgs, recs, r.indices, values, 1)

\* sorted(indices, reverse=True)
RECURSIVE sorted_reverse(_)
sorted_reverse(indices) ==
    IF indices = <<>> THEN <<>>
    ELSE LET m == CHOOSE j \in DOMAIN indices : \A k \in DOMAIN indices : indices[k] <= indices[j]
         IN  <<indices[m]>> \o sorted_reverse(Pop(indices, m - 1))

\* Registry.__delitem__: the loop of self.records.pop(i) from index n on
RECURSIVE pop_loop(_, _, _)
pop_loop(recs, indices, n) ==
    IF n > Len(indices) THEN [records |-> recs, err |-> NoError]
    ELSE IF indices[n] >= Len(recs) THEN [records |-> recs, err |-> PopIndexError]
    ELSE pop_loop(Pop(recs, indices[n]), indices, n + 1)

\* the mutant: each key is resolved and its record removed before the next
\* key is looked at
RECURSIVE delitem_each(_, _, _, _)
delitem_each(cfgs, recs, ks, n) ==
    IF n > Len(ks) THEN [records |-> recs, err |-> NoError]
    ELSE LET r == _resolve_index(cfgs, recs, ks[n])
         IN  IF r.err # NoError THEN [records |-> recs, err |-> r.err]
             ELSE delitem_each(cfgs, Pop(recs, r.idx), ks, n + 1)

delitem_interleaved(cfgs, recs, key_arg) == delitem_each(cfgs, recs, ensure_list(key_arg), 1)

\* Registry.__delitem__
delitem(cfgs, recs, key_arg) ==
    LET r == _resolve_indices(cfgs, recs, key_arg)
    IN  IF r.err # NoError THEN [records |-> recs, err |-> r.err]
        ELSE pop_loop(recs, sorted_reverse(r.indices), 1)

(***************************************************************************)
(* Registry.__getattr__                                                    *)
(***************************************************************************)
\* the names normal attribute lookup finds on the Registry: its two fields
\* and the methods the class defines
OwnAttributes ==
    {W_records, W_key_configs, W_append, W_clear, W_resolve_index_by_key,
     W__check_uniqueness, W__resolve_index, W__resolve_indices, W__validate_key_configs}

\* super().__getattribute__(name) for a name it finds
own_attribute(cfgs, recs, name) ==
    IF name = W_records THEN [kind |-> "records", items |-> recs]
    ELSE IF name = W_key_configs THEN [kind |-> "key_configs", items |-> cfgs]
    ELSE [kind |-> "method", items |-> <<>>]

\* the dir() fallback: the names that do not start with "_" and are not callable
dir_attr_names(t) ==
    LET keep(d) == ~(d.name # <<>> /\ d.name[1] = "_") /\ ~d.callable
        kept == SelectSeq(Dir(t), keep)
    IN  [i \in 1..Len(kept) |-> kept[i].name]

\* attr_names, by the first of __fields__, __annotations__, dir() the class has
attr_names(t) ==
    IF hasattr_fields(t) THEN Fields(t)
    ELSE IF hasattr_annotations(t) THEN Annotations(t)
    ELSE dir_attr_names(t)

\* plural_to_singular: a later attribute overwrites an earlier one that
\* has the same plural
plural_to_singular(names, name) ==
    LET hits == {i \in DOMAIN names : pluralize(names[i]) = name}
    IN  IF hits = {} THEN <<>>
        ELSE <<names[CHOOSE i \in hits : \A j \in hits : j <= i]>>

__getattr__(t, cfgs, recs, name) ==
    IF name \in OwnAttributes THEN [ret |-> own_attribute(cfgs, recs, name), err |-> NoError]
    ELSE IF recs = <<>> THEN [ret |-> [kind |-> "None", items |-> <<>>], err |-> AttributeNotFound]
    ELSE LET singular == plural_to_singular(attr_names(t), name)
         IN  IF singular # <<>>
             THEN [ret |-> [kind |-> "list",
                            items |-> [i \in 1..Len(recs) |-> getattr(recs[i], singular[1])]],
                   err |-> NoError]
             ELSE [ret |-> [kind |-> "None", items |-> <<>>], err |-> AttributeNotFound]

(***************************************************************************)
(* The inputs of the calls.                                                *)
(***************************************************************************)
KeyValues == StrValues \cup UuidValues \cup {IntV(k) : k \in -1..MaxRecords}

KeyArgs == {One(k) : k \in KeyValues} \cup {List(s) : s \in SeqsUpTo(KeyValues, MaxBatch)}

ValueArgs(t) == {One(r) : r \in Instances(t)} \cup {List(s) : s \in SeqsUpTo(Instances(t), MaxBatch)}

AttrQueries ==
    {W_names, W_ids, W_alias, W_boxes, W_proxies, W_name, W_labels, W_records,
     W_key_configs, W_clear}

NoArg == [list |-> FALSE, items |-> <<>>]
NoResult == [kind |-> "None", items |-> <<>>]

(***************************************************************************)
(* The state machine.                                                      *)
(***************************************************************************)
Init ==
    /\ pc = "new"
    /\ rec_type = "Unknown"
    /\ key_configs = <<>>
    /\ records = <<>>
    /\ seeded = FALSE
    /\ op = "none"
    /\ keys = NoArg
    /\ vals = NoArg
    /\ pre = <<>>
    /\ err = NoError
    /\ ret = NoResult

\* Registry(key_configs=configs, records=recs): the KeyConfig validators, then
\* the key_configs validator; the records are stored as given
Construct ==
    /\ pc = "new"
    /\ \E t \in RecTypes : \E configs \in Schemas(t) :
       \E recs \in SeqsUpTo(Instances(t), MaxRecords) :
          LET raises == \/ \E c \in 1..Len(configs) : validate_prop_name_raises(configs[c].prop_name)
                        \/ _validate_key_configs_raises(configs)
          IN  /\ pc' = IF raises THEN "failed" ELSE "returned"
              /\ err' = IF raises THEN SchemaError ELSE NoError
              /\ records' = IF raises THEN <<>> ELSE recs
              /\ rec_type' = t
              /\ key_configs' = configs
              /\ seeded' = (recs # <<>>)
              /\ op' = "construct"
              /\ vals' = List(recs)
              /\ UNCHANGED <<keys, pre, ret>>

\* registry.append(value_arg)
AppendRecords ==
    /\ pc = "idle"
    /\ pc' = "returned"
    /\ \E value_arg \in ValueArgs(rec_type) :
          /\ LET r == append_loop(key_configs, records, ensure_list(value_arg), 1)
             IN  /\ Len(r.records) <= MaxRecords
                 /\ records' = r.records
                 /\ err' = r.err
          /\ op' = "append"
          /\ keys' = NoArg
          /\ vals' = value_arg
          /\ pre' = records
          /\ ret' = NoResult
    /\ UNCHANGED <<rec_type, key_configs, seeded>>

\* registry[key_arg]
GetItem ==
    /\ pc = "idle"
    /\ pc' = "returned"
    /\ \E key_arg \in KeyArgs :
          /\ LET r == _resolve_indices(key_configs, records, key_arg)
             IN  /\ err' = r.err
                 /\ ret' = IF r.err = NoError THEN getitem_result(records, r.indices)
                           ELSE NoResult
          /\ op' = "getitem"
          /\ keys' = key_arg
          /\ vals' = NoArg
          /\ pre' = records
    /\ UNCHANGED <<rec_type, key_configs, seeded, records>>

\* registry[key_arg] = value_arg
SetItem ==
    /\ pc = "idle"
    /\ pc' = "returned"
    /\ \E key_arg \in KeyArgs : \E value_arg \in ValueArgs(rec_type) :
          /\ LET r == setitem(key_configs, records, key_arg, value_arg)
             IN  /\ records' = r.records
                 /\ err' = r.err
          /\ op' = "setitem"
          /\ keys' = key_arg
          /\ vals' = value_arg
          /\ pre' = records
          /\ ret' = NoResult
    /\ UNCHANGED <<rec_type, key_configs, seeded>>

\* del registry[key_arg]
DelItem ==
    /\ pc = "idle"
    /\ pc' = "returned"
    /\ \E key_arg \in KeyArgs :
          /\ LET r == delitem(key_configs, records, key_arg)
             IN  /\ records' = r.records
                 /\ err' = r.err
          /\ op' = "delitem"
          /\ keys' = key_arg
          /\ vals' = NoArg
          /\ pre' = records
          /\ ret' = NoResult
    /\ UNCHANGED <<rec_type, key_configs, seeded>>

\* the mutant: clear() resets the key schema with the records
ClearResetsSchema ==
    /\ pc = "idle"
    /\ pc' = "returned"
    /\ records' = <<>>
    /\ key_configs' = <<>>
    /\ err' = NoError
    /\ op' = "clear"
    /\ keys' = NoArg
    /\ vals' = NoArg
    /\ pre' = records
    /\ ret' = NoResult
    /\ UNCHANGED <<rec_type, seeded>>

\* registry.clear()
Clear ==
    /\ pc = "idle"
    /\ pc' = "returned"
    /\ records' = <<>>
    /\ err' = NoError
    /\ op' = "clear"
    /\ keys' = NoArg
    /\ vals' = NoArg
    /\ pre' = records
    /\ ret' = NoResult
    /\ UNCHANGED <<rec_type, key_configs, seeded>>

\* getattr(registry, name), e.g. registry.names
GetAttr ==
    /\ pc = "idle"
    /\ pc' = "returned"
    /\ \E name \in AttrQueries :
          /\ LET r == __getattr__(rec_type, key_configs, records, name)
             IN  /\ err' = r.err
                 /\ ret' = r.ret
          /\ op' = "getattr"
          /\ keys' = One(name)
          /\ vals' = NoArg
          /\ pre' = records
    /\ UNCHANGED <<rec_type, key_configs, seeded, records>>

\* the caller takes the result (or the exception) of the call and goes on
Return ==
    /\ pc = "returned"
    /\ pc' = "idle"
    /\ op' = "none"
    /\ keys' = NoArg
    /\ vals' = NoArg
    /\ pre' = <<>>
    /\ err' = NoError
    /\ ret' = NoResult
    /\ UNCHANGED <<rec_type, key_configs, seeded, records>>

Next ==
    \/ Construct
    \/ AppendRecords
    \/ GetItem
    \/ SetItem
    \/ DelItem
    \/ Clear
    \/ GetAttr
    \/ Return

Spec == Init /\ [][Next]_vars

(***************************************************************************)
(* pluralize on its own: a word is drawn, then pluralized.                 *)
(***************************************************************************)
W_category == <<"c", "a", "t", "e", "g", "o", "r", "y">>
W_categories == <<"c", "a", "t", "e", "g", "o", "r", "i", "e", "s">>
W_pos_y == <<"p", "o", "s", "_", "y">>

WordChars == {"a", "E", "b", "y", "s", "h", "c", "x", "z", "_"}

Words == SeqsUpTo(WordChars, MaxWordLen) \cup {W_category, W_box, W_id, W_name, W_proxy, W_pos_y}

PluralInit ==
    /\ pc = "word"
    /\ keys \in {One(w) : w \in Words}
    /\ rec_type = "Unknown"
    /\ key_configs = <<>>
    /\ records = <<>>
    /\ seeded = FALSE
    /\ op = "none"
    /\ vals = NoArg
    /\ pre = <<>>
    /\ err = NoError
    /\ ret = NoResult

\* pluralize(word)
PluralizeWord ==
    /\ pc = "word"
    /\ pc' = "pluralized"
    /\ op' = "pluralize"
    /\ ret' = [kind |-> "word", items |-> pluralize(keys.items[1])]
    /\ UNCHANGED <<rec_type, key_configs, records, seeded, keys, vals, pre, err>>

PluralNext == PluralizeWord

PluralSpec == PluralInit /\ [][PluralNext]_vars

(***************************************************************************)
(* Vocabulary of the properties.                                           *)
(***************************************************************************)
Built == pc \in {"idle", "returned"}

\* the source attributes of the key declarations that are not UUID-typed
NonIdentifierAttrs(cfgs) ==
    {cfgs[c].attr_name : c \in {d \in 1..Len(cfgs) : cfgs[d].expected_type # "UUID"}}

\* the UUID-typed key declarations, by position in the schema
IdentifierConfigs(cfgs) == {c \in 1..Len(cfgs) : cfgs[c].expected_type = "UUID"}

\* no two records share a value at a non-identifier key's source attribute
Unique(cfgs, recs) ==
    \A a \in NonIdentifierAttrs(cfgs) : \A i, j \in 1..Len(recs) :
        i # j => recs[i][a] # recs[j][a]

\* rec has the value of some record of recs at a non-identifier key
Collides(cfgs, recs, rec) ==
    \E a \in NonIdentifierAttrs(cfgs) : \E i \in 1..Len(recs) : recs[i][a] = rec[a]

\* the first item of the batch that collides with the store as it is once
\* the items before it are appended; Len(batch) + 1 when there is none
FirstCollision(cfgs, recs, batch) ==
    LET bad == {n \in 1..Len(batch) : Collides(cfgs, recs \o SubSeq(batch, 1, n - 1), batch[n])}
    IN  IF bad = {} THEN Len(batch) + 1 ELSE CHOOSE n \in bad : \A m \in bad : n <= m

\* the plural of each attribute name of the element types, by the rule table
PluralOf(attr) ==
    CASE attr = W_name -> W_names
      [] attr = W_id -> W_ids
      [] attr = W_alias -> W_alias
      [] attr = W_box -> W_boxes
      [] attr = W_proxy -> W_proxies
      [] attr = W_record -> W_records
      [] attr = W_names -> W_names

\* the 0-based index a key resolves to in recs when every key resolves
AllResolve(cfgs, recs, ks) ==
    \A n \in 1..Len(ks) : _resolve_index(cfgs, recs, ks[n]).err = NoError

ResolvedSet(cfgs, recs, ks) ==
    {_resolve_index(cfgs, recs, ks[n]).idx : n \in 1..Len(ks)}

\* recs without the records at the 0-based indices of gone, order kept
RECURSIVE Without(_, _, _)
Without(recs, gone, i) ==
    IF i > Len(recs) THEN <<>>
    ELSE (IF (i - 1) \in gone THEN <<>> ELSE <<recs[i]>>) \o Without(recs, gone, i + 1)

(***************************************************************************)
(* C1.  A Registry constructed with no initial records never holds two     *)
(* records with equal values at the source attribute of a non-identifier   *)
(* key declaration, whatever append, replace (and delete, clear) calls     *)
(* were made on it.                                                        *)
(***************************************************************************)
C1_Uniqueness == (Built /\ ~seeded) => Unique(key_configs, records)

C1_Witness ==
    /\ ~seeded
    /\ op = "setitem"
    /\ err = NoError
    /\ Len(records) = 2
    /\ records # pre
    /\ NonIdentifierAttrs(key_configs) # {}

(***************************************************************************)
(* C2.  Round trip, as claimed: right after a successful append(r), for    *)
(* every non-identifier key declaration, registry[r.<attr>] returns r.     *)
(* The code takes every int key as a position, so it fails for an          *)
(* int-typed key.                                                          *)
(***************************************************************************)
C2_RoundTrip ==
    (op = "append" /\ err = NoError /\ ~vals.list) =>
        LET r == vals.items[1]
        IN  \A a \in NonIdentifierAttrs(key_configs) :
                LET res == _resolve_indices(key_configs, records, One(r[a]))
                IN  /\ res.err = NoError
                    /\ getitem_result(records, res.indices) = [kind |-> "item", items |-> <<r>>]

(***************************************************************************)
(* C3.  Identifier exemption.  An append succeeds whenever no appended     *)
(* record collides on a non-identifier key, equal UUID-typed values or     *)
(* not; and registry[u] for a UUID u raises the ambiguous-key error when   *)
(* two records hold u at the source attribute of the FIRST UUID-typed      *)
(* declaration of the schema.                                              *)
(***************************************************************************)
C3_AppendExempt ==
    (op = "append" /\ FirstCollision(key_configs, pre, vals.items) > Len(vals.items)) =>
        (err = NoError /\ records = pre \o vals.items)

C3_AmbiguousUnder(c) ==
    (/\ op = "getitem"
     /\ ~keys.list
     /\ isinstance(keys.items[1], "UUID")
     /\ Cardinality(MatchingIndices(records, key_configs[c].attr_name, keys.items[1])) >= 2)
        => err = AmbiguousKeyError

C3_IdentifierExemptionFirst ==
    /\ C3_AppendExempt
    /\ \A c \in IdentifierConfigs(key_configs) :
          (\A d \in IdentifierConfigs(key_configs) : c <= d) => C3_AmbiguousUnder(c)

\* the claim as written: under every UUID-typed declaration
C3_IdentifierExemptionEvery ==
    /\ C3_AppendExempt
    /\ \A c \in IdentifierConfigs(key_configs) : C3_AmbiguousUnder(c)

C3_Witness ==
    /\ op = "getitem"
    /\ err = AmbiguousKeyError
    /\ ~seeded
    /\ Len(records) = 2
    /\ NonIdentifierAttrs(key_configs) # {}

(***************************************************************************)
(* C4.  Delete exactness, as claimed: when every key of the batch          *)
(* resolves, del registry[keys] removes exactly the records at the         *)
(* resolved indices and keeps the others in order.  The code pops once per *)
(* occurrence of an index, so a repeated index removes a neighbour (or     *)
(* raises halfway).                                                        *)
(***************************************************************************)
C4_DeleteExact ==
    (op = "delitem" /\ AllResolve(key_configs, pre, keys.items)) =>
        /\ err = NoError
        /\ records = Without(pre, ResolvedSet(key_configs, pre, keys.items), 1)

(***************************************************************************)
(* C5.  Projection.  The list getattr returns is the column of attr: as    *)
(* long as the store, its j-th element the attribute of the j-th record.   *)
(***************************************************************************)
ProjectsAttribute(attr) ==
    /\ err = NoError
    /\ ret.kind = "list"
    /\ Len(ret.items) = Len(records)
    /\ \A j \in 1..Len(records) : ret.items[j] = records[j][attr]

\* the attribute names the element type declares (model fields or class
\* annotations), in declaration order
DeclaredAttributes(t) == IF t = "Loose" THEN <<>> ELSE Attributes(t)

\* C5 as claimed: with at least one record stored, getattr under the plural
\* of any attribute of the records returns the column of that attribute.
\* It fails for the attribute "record" (registry.records is the store), for
\* "name" next to "names" (one plural, the later field wins) and for an
\* attribute the class does not declare.
C5_Projection ==
    (op = "getattr" /\ records # <<>>) =>
        \A i \in 1..Len(Attributes(rec_type)) :
            LET attr == Attributes(rec_type)[i]
            IN  keys.items[1] = PluralOf(attr) => ProjectsAttribute(attr)

\* C5, amended: with at least one record stored, getattr under the plural
\* of an attribute the element type declares returns the column of that
\* attribute, when the plural is not an attribute of the Registry itself
\* and no attribute declared later has the same plural.
C5_ProjectionDeclared ==
    (op = "getattr" /\ records # <<>>) =>
        LET declared == DeclaredAttributes(rec_type)
        IN  \A i \in 1..Len(declared) :
                (/\ keys.items[1] = PluralOf(declared[i])
                 /\ PluralOf(declared[i]) \notin OwnAttributes
                 /\ \A k \in (i + 1)..Len(declared) : PluralOf(declared[k]) # PluralOf(declared[i]))
                    => ProjectsAttribute(declared[i])

C5_Witness ==
    /\ op = "getattr"
    /\ keys.items[1] = W_proxies
    /\ Len(records) = 2
    /\ err = NoError
    /\ Len(ret.items) = 2
    /\ ret.items[1] # ret.items[2]
    /\ ProjectsAttribute(W_proxy)

(***************************************************************************)
(* C6.  Projection on an empty Registry, as claimed: getattr under the     *)
(* plural of an attribute name returns the empty list.  The code cannot    *)
(* tell the record type without a record and raises AttributeError.        *)
(***************************************************************************)
C6_EmptyProjection ==
    (/\ op = "getattr"
     /\ records = <<>>
     /\ \E i \in 1..Len(Attributes(rec_type)) : keys.items[1] = PluralOf(Attributes(rec_type)[i]))
        => (err = NoError /\ ret = [kind |-> "list", items |-> <<>>])

(***************************************************************************)
(* C7.  Uniqueness right after construction, as claimed: a Registry built  *)
(* with initial records holds no two records equal at a non-identifier     *)
(* key.  The constructor stores the records unchecked.                     *)
(***************************************************************************)
C7_UniqueAfterConstruction ==
    (op = "construct" /\ pc = "returned") => Unique(key_configs, records)

(***************************************************************************)
(* C8.  Batch append: the records are appended in argument order up to,    *)
(* and without, the first one that collides on a non-identifier key; the   *)
(* call raises the duplicate-key error iff there is one, and nothing after *)
(* it is appended.                                                         *)
(***************************************************************************)
C8_AppendPartial ==
    op = "append" =>
        LET n == FirstCollision(key_configs, pre, vals.items)
        IN  /\ records = pre \o SubSeq(vals.items, 1, n - 1)
            /\ err = (IF n <= Len(vals.items) THEN DuplicateKeyError ELSE NoError)

C8_Witness ==
    /\ op = "append"
    /\ err = DuplicateKeyError
    /\ Len(pre) = 1
    /\ Len(vals.items) = 2
    /\ Collides(key_configs, pre, vals.items[1])
    /\ ~Collides(key_configs, pre, vals.items[2])
    /\ records = pre

(***************************************************************************)
(* C9.  Replace with as many resolved keys as it likes but a different     *)
(* number of values raises the count-mismatch error and leaves the store   *)
(* as it was.                                                              *)
(***************************************************************************)
C9_CountMismatch ==
    (/\ op = "setitem"
     /\ AllResolve(key_configs, pre, keys.items)
     /\ Len(keys.items) # Len(vals.items))
        => (err = CountMismatchError /\ records = pre)

C9_Witness ==
    /\ op = "setitem"
    /\ err = CountMismatchError
    /\ Len(keys.items) = 2
    /\ Len(vals.items) = 1
    /\ Len(pre) = 2
    /\ \A a \in DOMAIN pre[1] : vals.items[1][a] # pre[1][a] /\ vals.items[1][a] # pre[2][a]

(***************************************************************************)
(* C10.  Schema validation: construction raises when two key declarations  *)
(* share a match type other than UUID; with valid property names it        *)
(* succeeds when no match type other than UUID is repeated, however many   *)
(* declarations are UUID-typed.                                            *)
(***************************************************************************)
RepeatedNonIdentifierType(cfgs) ==
    \E i, j \in 1..Len(cfgs) :
        i < j /\ cfgs[i].expected_type # "UUID" /\ cfgs[i].expected_type = cfgs[j].expected_type

C10_SchemaValidation ==
    op = "construct" =>
        /\ RepeatedNonIdentifierType(key_configs) => (pc = "failed" /\ err = SchemaError)
        /\ (/\ ~RepeatedNonIdentifierType(key_configs)
            /\ \A c \in 1..Len(key_configs) : isidentifier(key_configs[c].prop_name))
               => (pc = "returned" /\ err = NoError)

C10_Witness ==
    /\ op = "construct"
    /\ pc = "returned"
    /\ Cardinality(IdentifierConfigs(key_configs)) = 3

(***************************************************************************)
(* C11.  The rule table of pluralize, as claimed: a word ending in 's' is  *)
(* unchanged; else one ending in 'y' preceded by a consonant gets 'ies'    *)
(* for the 'y'; else one ending in 'sh', 'ch', 'x' or 'z' gets 'es'; else  *)
(* 's' is appended.  The code takes every character that is not a vowel    *)
(* for a consonant, the underscore of pos_y included.                      *)
(***************************************************************************)
Consonants == Letters \ {"a", "e", "i", "o", "u", "A", "E", "I", "O", "U"}

RuleTablePlural(w) ==
    LET n == Len(w)
    IN  IF n >= 1 /\ w[n] = "s" THEN w
        ELSE IF n >= 2 /\ w[n] = "y" /\ w[n - 1] \in Consonants
        THEN SubSeq(w, 1, n - 1) \o <<"i", "e", "s">>
        ELSE IF \/ (n >= 1 /\ w[n] \in {"x", "z"})
                \/ (n >= 2 /\ w[n] = "h" /\ w[n - 1] \in {"s", "c"})
        THEN w \o <<"e", "s">>
        ELSE w \o <<"s">>

C11_RuleTable ==
    pc = "pluralized" => ret.items = RuleTablePlural(keys.items[1])

(***************************************************************************)
(* C12.  Replace excludes only the target index, as claimed: for one key   *)
(* resolved to index i and one value v, the call succeeds when v has the   *)
(* non-identifier key values of records[i], and raises the duplicate-key   *)
(* error, leaving the store as it was, when v has a non-identifier key     *)
(* value of a record at another index.  In a store built from initial      *)
(* records that already share a key value both cases hold at once.         *)
(***************************************************************************)
SingleReplaceAt(i) ==
    /\ op = "setitem"
    /\ Len(keys.items) = 1
    /\ Len(vals.items) = 1
    /\ _resolve_index(key_configs, pre, keys.items[1]) = [idx |-> i, err |-> NoError]

C12_ReplaceExcludesTarget ==
    \A i \in 0..(Len(pre) - 1) :
        SingleReplaceAt(i) =>
            LET v == vals.items[1]
            IN  /\ (\A a \in NonIdentifierAttrs(key_configs) : v[a] = pre[i + 1][a])
                       => (err = NoError /\ records = SetAt(pre, i, v))
                /\ (\E a \in NonIdentifierAttrs(key_configs) :
                        \E j \in 0..(Len(pre) - 1) : j # i /\ v[a] = pre[j + 1][a])
                       => (err = DuplicateKeyError /\ records = pre)

(***************************************************************************)
(* C13.  Only the first key declaration whose match type matches the key   *)
(* is consulted: registry[u] for a UUID u raises the key-not-found error   *)
(* when no record holds u under the first UUID-typed declaration, and the  *)
(* ambiguous-key error only when two records hold u under that first       *)
(* declaration, whatever the records hold under a later one.               *)
(***************************************************************************)
FirstIdentifierConfig(cfgs) ==
    CHOOSE c \in IdentifierConfigs(cfgs) : \A d \in IdentifierConfigs(cfgs) : c <= d

C13_FirstDeclarationOnly ==
    (/\ op = "getitem"
     /\ ~keys.list
     /\ isinstance(keys.items[1], "UUID")
     /\ Cardinality(IdentifierConfigs(key_configs)) >= 2)
        => LET first == key_configs[FirstIdentifierConfig(key_configs)]
               hits == {i \in 1..Len(records) : records[i][first.attr_name] = keys.items[1]}
           IN  /\ hits = {} => err = KeyNotFound
               /\ err = AmbiguousKeyError => Cardinality(hits) >= 2
               /\ Cardinality(hits) = 1 => (err = NoError /\ \A i \in hits : ret.items = <<records[i]>>)

C13_Witness ==
    /\ op = "getitem"
    /\ err = KeyNotFound
    /\ isinstance(keys.items[1], "UUID")
    /\ Len(key_configs) = 2
    /\ Len(records) = 2
    /\ \A i \in 1..2 : /\ records[i][key_configs[1].attr_name] # keys.items[1]
                       /\ records[i][key_configs[2].attr_name] = keys.items[1]

(***************************************************************************)
(* C14.  _resolve_index, seen through a call with one key: an int key k    *)
(* is the position k when 0 <= k < len(records) and raises the             *)
(* index-out-of-range error otherwise, negative k included; a key of       *)
(* another type that no record holds under a declaration of its type, or   *)
(* whose type no declaration has, raises the key-not-found error; a call   *)
(* that fails so leaves the store as it was.                               *)
(***************************************************************************)
KeyedCall == op \in {"getitem", "setitem", "delitem"}

HeldUnderSomeDeclaration(cfgs, recs, key) ==
    \E c \in 1..Len(cfgs) :
        /\ cfgs[c].expected_type = key.type
        /\ \E i \in 1..Len(recs) : recs[i][cfgs[c].attr_name] = key

C14_ResolveIndex ==
    (KeyedCall /\ Len(keys.items) = 1) =>
        LET key == keys.items[1]
        IN  /\ (key.type = "int" /\ (key.val < 0 \/ key.val >= Len(pre)))
                   => (err = IndexOutOfRange /\ records = pre)
            /\ (key.type = "int" /\ 0 <= key.val /\ key.val < Len(pre) /\ op = "getitem")
                   => (err = NoError /\ ret.items = <<pre[key.val + 1]>>)
            /\ (key.type = "int" /\ 0 <= key.val /\ key.val < Len(pre) /\ op = "delitem")
                   => (err = NoError /\ records = Pop(pre, key.val))
            /\ (key.type # "int" /\ ~HeldUnderSomeDeclaration(key_configs, pre, key))
                   => (err = KeyNotFound /\ records = pre)

C14_Witness ==
    /\ op = "delitem"
    /\ keys.items = <<IntV(-1)>>
    /\ Len(pre) = 2
    /\ err = IndexOutOfRange
    /\ records = pre

(***************************************************************************)
(* C15.  A successful append keeps the stored records where they were and  *)
(* puts the appended records after them in argument order; the length      *)
(* grows by the number of appended records.                                *)
(***************************************************************************)
C15_AppendOrder ==
    (op = "append" /\ err = NoError) =>
        /\ Len(records) = Len(pre) + Len(vals.items)
        /\ \A i \in 1..Len(pre) : records[i] = pre[i]
        /\ \A n \in 1..Len(vals.items) : records[Len(pre) + n] = vals.items[n]

C15_Witness ==
    /\ op = "append"
    /\ err = NoError
    /\ Len(pre) = 1
    /\ Len(vals.items) = 1
    /\ records[1] = pre[1]
    /\ records[2] = vals.items[1]
    /\ records[1] # records[2]

(***************************************************************************)
(* C16.  clear() leaves no record and raises nothing, and a record that    *)
(* was stored before it can be appended again right after; no call on a    *)
(* built Registry (append, replace, delete, clear, keyed read,             *)
(* projection) changes the key schema.                                     *)
(***************************************************************************)
C16_ClearEmpties ==
    op = "clear" =>
        /\ records = <<>>
        /\ err = NoError
        /\ \A r \in Range(pre) :
              append_loop(key_configs, records, <<r>>, 1) = [records |-> <<r>>, err |-> NoError]

C16_ClearAndSchema ==
    /\ []C16_ClearEmpties
    /\ [][Built => key_configs' = key_configs]_vars

C16_Witness ==
    /\ op = "clear"
    /\ Len(pre) = 2
    /\ records = <<>>
    /\ NonIdentifierAttrs(key_configs) # {}

(***************************************************************************)
(* C17.  A keyed read with a list of two or more keys that all resolve     *)
(* returns a list with, at position j, the record the j-th key resolves    *)
(* to, a repeated key giving a repeated record, and leaves the store as    *)
(* it was.                                                                 *)
(***************************************************************************)
C17_ReadInKeyOrder ==
    (op = "getitem" /\ Len(keys.items) >= 2 /\ AllResolve(key_configs, pre, keys.items)) =>
        /\ err = NoError
        /\ ret.kind = "list"
        /\ Len(ret.items) = Len(keys.items)
        /\ \A j \in 1..Len(keys.items) :
              ret.items[j] = pre[_resolve_index(key_configs, pre, keys.items[j]).idx + 1]
        /\ records = pre

C17_Witness ==
    /\ op = "getitem"
    /\ err = NoError
    /\ Len(keys.items) = 2
    /\ keys.items[1].type # "int"
    /\ Len(pre) = 2
    /\ pre[1] # pre[2]
    /\ ret.items = <<pre[2], pre[1]>>

(***************************************************************************)
(* C18.  Delete resolves the whole batch first: when a key of the batch    *)
(* does not resolve (not found, out of range or ambiguous) the call        *)
(* raises that error and the store is as before the call.                  *)
(***************************************************************************)
C18_DeleteAllOrNothing ==
    (op = "delitem" /\ ~AllResolve(key_configs, pre, keys.items)) =>
        /\ records = pre
        /\ err \in {KeyNotFound, IndexOutOfRange, AmbiguousKeyError}

C18_Witness ==
    /\ op = "delitem"
    /\ Len(keys.items) = 2
    /\ Len(pre) = 2
    /\ _resolve_index(key_configs, pre, keys.items[1]).err = NoError
    /\ _resolve_index(key_configs, pre, keys.items[2]).err = KeyNotFound
    /\ err = KeyNotFound
    /\ records = pre

(***************************************************************************)
(* C19.  An int key is a position in read, replace and delete, whatever    *)
(* the schema declares: the call acts on records[k] when 0 <= k <          *)
(* len(records) and raises the index-out-of-range error otherwise, also    *)
(* when a declaration is int-typed and a record holds k at its attribute.  *)
(***************************************************************************)
C19_IntKeyIsPosition ==
    (KeyedCall /\ Len(keys.items) = 1 /\ keys.items[1].type = "int") =>
        LET k == keys.items[1].val
            inside == 0 <= k /\ k < Len(pre)
        IN  /\ ~inside => err = IndexOutOfRange
            /\ (inside /\ op = "getitem") => ret = [kind |-> "item", items |-> <<pre[k + 1]>>]
            /\ (inside /\ op = "delitem") =>
                   (Len(records) = Len(pre) - 1 /\ \A i \in 1..Len(records) :
                        records[i] = pre[IF i <= k THEN i ELSE i + 1])
            /\ (inside /\ op = "setitem" /\ Len(vals.items) = 1) =>
                   /\ err \in {NoError, DuplicateKeyError}
                   /\ \A i \in 1..Len(pre) : i # k + 1 => records[i] = pre[i]
                   /\ records[k + 1] = (IF err = NoError THEN vals.items[1] ELSE pre[k + 1])

C19_Witness ==
    /\ op = "getitem"
    /\ keys.items = <<IntV(1)>>
    /\ \E c \in 1..Len(key_configs) :
          /\ key_configs[c].expected_type = "int"
          /\ Len(pre) = 2
          /\ pre[1][key_configs[c].attr_name] = IntV(1)
          /\ pre[2][key_configs[c].attr_name] = IntV(0)
    /\ ret = [kind |-> "item", items |-> <<pre[2]>>]

(***************************************************************************)
(* C20.  Batch replace validates pair by pair against the store as the     *)
(* earlier pairs left it: the call writes the pairs before the first one   *)
(* that collides (the target index excluded) and raises the duplicate-key  *)
(* error there.  So a batch that swaps the non-identifier key values of    *)
(* two records fails on its first pair with the store untouched, and a     *)
(* batch that fails on a later pair leaves the earlier pairs written.      *)
(***************************************************************************)
CollidesExcept(cfgs, recs, rec, i) ==
    \E a \in NonIdentifierAttrs(cfgs) :
        \E j \in 0..(Len(recs) - 1) : j # i /\ recs[j + 1][a] = rec[a]

RECURSIVE PairByPair(_, _, _, _, _)
PairByPair(cfgs, recs, ks, vs, n) ==
    IF n > Len(ks) THEN [records |-> recs, err |-> NoError]
    ELSE LET i == _resolve_index(cfgs, pre, ks[n]).idx
         IN  IF CollidesExcept(cfgs, recs, vs[n], i)
             THEN [records |-> recs, err |-> DuplicateKeyError]
             ELSE PairByPair(cfgs, [recs EXCEPT ![i + 1] = vs[n]], ks, vs, n + 1)

IsSwap ==
    /\ Len(keys.items) = 2
    /\ NonIdentifierAttrs(key_configs) # {}
    /\ LET i == _resolve_index(key_configs, pre, keys.items[1]).idx
           j == _resolve_index(key_configs, pre, keys.items[2]).idx
       IN  /\ i # j
           /\ \A a \in NonIdentifierAttrs(key_configs) :
                 vals.items[1][a] = pre[j + 1][a] /\ vals.items[2][a] = pre[i + 1][a]

C20_BatchReplace ==
    (/\ op = "setitem"
     /\ AllResolve(key_configs, pre, keys.items)
     /\ Len(keys.items) = Len(vals.items))
        => /\ [records |-> records, err |-> err]
                 = PairByPair(key_configs, pre, keys.items, vals.items, 1)
           /\ IsSwap => (err = DuplicateKeyError /\ records = pre)

C20_Witness ==
    /\ op = "setitem"
    /\ ~seeded
    /\ AllResolve(key_configs, pre, keys.items)
    /\ Len(vals.items) = 2
    /\ IsSwap
    /\ \E a \in NonIdentifierAttrs(key_configs) : pre[1][a] # pre[2][a]
    /\ err = DuplicateKeyError
    /\ records = pre

====
